---- MODULE Spec2Model ----
(***************************************************************************)
(* Model of src/preprocess.py, preprocess_sbp_data: the pivot of the raw   *)
(* SBP balance-sheet records into one row per (Subgrupo, Anio, Mes), the   *)
(* DuPont metrics, the quantile classification of ROE and the secondary    *)
(* ratios.                                                                 *)
(*                                                                         *)
(* Numbers.  A float is modelled as an extended rational <<n, d>> in       *)
(* lowest terms with d >= 0: d > 0 is the finite value n/d, <<1, 0>> and   *)
(* <<-1, 0>> are +inf and -inf, <<0, 0>> is NaN.  Rounding of IEEE doubles *)
(* is not modelled.                                                        *)
(***************************************************************************)
EXTENDS Integers, Sequences, FiniteSets

VARIABLES
    columns,        \* the column names of the sheet read by pd.read_excel
    raw,            \* the rows of the sheet, in file order
    pc,             \* position in preprocess_sbp_data
    status,         \* "running", "ok" or the exception that ended the call
    df,             \* the frame after pd.to_numeric on 'Valor'
    pivoted,        \* the pivot table
    net_income, total_assets, equity, roa, leverage, roe,
    q33, q66, classification,
    liquidity_ratio, deposit_diversity, deposit_view_to_plazo,
    coverage_ratio, leverage_ratio_extra, capitalization_ratio, adjusted_ROE,
    result          \* the returned frame: a sequence of rows

vars == <<columns, raw, pc, status, df, pivoted,
          net_income, total_assets, equity, roa, leverage, roe,
          q33, q66, classification,
          liquidity_ratio, deposit_diversity, deposit_view_to_plazo,
          coverage_ratio, leverage_ratio_extra, capitalization_ratio,
          adjusted_ROE, result>>

Range(s) == {s[i] : i \in 1..Len(s)}

(***************************************************************************)
(* Extended rational arithmetic (the float operations the code uses).      *)
(***************************************************************************)
Abs(n) == IF n < 0 THEN -n ELSE n

Sign(n) == IF n < 0 THEN -1 ELSE IF n > 0 THEN 1 ELSE 0

RECURSIVE GCD(_, _)
GCD(a, b) == IF b = 0 THEN a ELSE GCD(b, a % b)

Norm(n, d) ==
    IF d = 0 THEN <<Sign(n), 0>>
    ELSE LET g == GCD(Abs(n), Abs(d))
             s == IF d < 0 THEN -1 ELSE 1
         IN  <<(s * n) \div g, (s * d) \div g>>

NaN == <<0, 0>>

Zero == <<0, 1>>

Num(n) == <<n, 1>>

IsNaN(x) == x = NaN

Neg(x) == <<-x[1], x[2]>>

Add(x, y) ==
    IF x[2] = 0 /\ y[2] = 0
    THEN (IF x = y THEN x ELSE NaN)
    ELSE Norm(x[1] * y[2] + y[1] * x[2], x[2] * y[2])

Sub(x, y) == Add(x, Neg(y))

Mul(x, y) == Norm(x[1] * y[1], x[2] * y[2])

Inv(x) == Norm(x[2], x[1])

Div(x, y) == Mul(x, Inv(y))

\* x <= y on floats: false when either side is NaN
Leq(x, y) ==
    /\ ~IsNaN(x)
    /\ ~IsNaN(y)
    /\ IF x[2] = 0 /\ y[2] = 0 THEN x[1] <= y[1]
       ELSE IF x[2] = 0 THEN x[1] < 0
       ELSE IF y[2] = 0 THEN y[1] > 0
       ELSE x[1] * y[2] <= y[1] * x[2]

\* sum(skipna=True, min_count=0) over a sequence of floats
RECURSIVE SumSkipNa(_)
SumSkipNa(s) ==
    IF s = <<>> THEN Zero
    ELSE IF IsNaN(Head(s)) THEN SumSkipNa(Tail(s))
    ELSE Add(Head(s), SumSkipNa(Tail(s)))

(***************************************************************************)
(* The sheet.  An empty cell reads as NaN: NaNStr in a text column, NaNInt *)
(* in an integer column.  A 'Valor' cell is a number, a text that spells a *)
(* number, any other text, or blank.                                       *)
(***************************************************************************)
NaNStr == "NaN"

NaNInt == -1

AllColumns == {"Subgrupo", "Categoria", "Indicador", "Anio", "Mes", "Valor"}

IndexColumns == {"Subgrupo", "Anio", "Mes"}

PivotColumns == {"Categoria", "Indicador"}

Number(n) == [kind |-> "number", num |-> n]

NumericText(n) == [kind |-> "numeric_text", num |-> n]

Text == [kind |-> "text", num |-> 0]

Blank == [kind |-> "blank", num |-> 0]

Rec(b, y, m, c, i, v) ==
    [Subgrupo |-> b, Anio |-> y, Mes |-> m, Categoria |-> c, Indicador |-> i, Valor |-> v]

\* pd.to_numeric(..., errors='coerce') on one cell
to_numeric(cell) ==
    CASE cell.kind = "number" -> Num(cell.num)
      [] cell.kind = "numeric_text" -> Num(cell.num)
      [] cell.kind = "text" -> NaN
      [] cell.kind = "blank" -> NaN

\* lines 15-17: the frame with 'Valor' coerced
Coerce(rows) ==
    [i \in 1..Len(rows) |-> [rows[i] EXCEPT !.Valor = to_numeric(rows[i].Valor)]]

(***************************************************************************)
(* pivot_table(index=[Subgrupo, Anio, Mes], columns=[Categoria, Indicador],*)
(* values='Valor', aggfunc='sum'), with its defaults dropna=True and       *)
(* sort=True.                                                              *)
(***************************************************************************)
IndexKey(r) == <<r.Subgrupo, r.Anio, r.Mes>>

ColumnKey(r) == <<r.Categoria, r.Indicador>>

\* groupby(dropna=True): a row with NaN in any grouping column is in no group
HasAllKeys(r) ==
    /\ r.Subgrupo # NaNStr
    /\ r.Anio # NaNInt
    /\ r.Mes # NaNInt
    /\ r.Categoria # NaNStr
    /\ r.Indicador # NaNStr

\* the bank names the model uses, in lexicographic order
BankNames == <<"X", "Y", "Z">>

BankRank(b) == CHOOSE i \in 1..Len(BankNames) : BankNames[i] = b

KeyLess(a, b) ==
    \/ BankRank(a[1]) < BankRank(b[1])
    \/ a[1] = b[1] /\ a[2] < b[2]
    \/ a[1] = b[1] /\ a[2] = b[2] /\ a[3] < b[3]

RECURSIVE SortKeys(_)
SortKeys(S) ==
    IF S = {} THEN <<>>
    ELSE LET m == CHOOSE k \in S : \A o \in S \ {k} : KeyLess(k, o)
         IN  <<m>> \o SortKeys(S \ {m})

\* the rows that take part in the groupby
GroupedRows(d) == SelectSeq(d, HasAllKeys)

\* the sorted, distinct index of the pivot table
GroupIndex(d) == SortKeys({IndexKey(r) : r \in Range(GroupedRows(d))})

ValuesOf(d, k, c) ==
    LET Match(r) == IndexKey(r) = k /\ ColumnKey(r) = c
        rows == SelectSeq(GroupedRows(d), Match)
    IN  [i \in 1..Len(rows) |-> rows[i].Valor]

\* faulty variant: aggfunc='first'
AggFirst(d, k, c) ==
    LET v == SelectSeq(ValuesOf(d, k, c), LAMBDA x : ~IsNaN(x))
    IN  IF v = <<>> THEN NaN ELSE Head(v)

\* aggfunc='sum' over one (index key, column key) group
AggSum(d, k, c) == SumSkipNa(ValuesOf(d, k, c))

pivot_table(d) ==
    LET rows == Range(GroupedRows(d))
        idx == GroupIndex(d)
        cols == {ColumnKey(r) : r \in rows}
        groups == {<<IndexKey(r), ColumnKey(r)>> : r \in rows}
    IN  [index |-> idx,
         columns |-> cols,
         data |-> [k \in Range(idx), c \in cols |->
                      IF <<k, c>> \in groups THEN AggSum(d, k, c) ELSE NaN]]

Idx == Range(pivoted.index)

fillna0(x) == IF IsNaN(x) THEN Zero ELSE x

\* lines 28-32
get_col(category, indicator) ==
    IF <<category, indicator>> \in pivoted.columns
    THEN [k \in Idx |-> fillna0(pivoted.data[k, <<category, indicator>>])]
    ELSE [k \in Idx |-> Zero]

\* DataFrame.sum(axis=1), skipna, of the cells of row k in the columns cs
RECURSIVE RowSum(_, _)
RowSum(k, cs) ==
    IF cs = {} THEN Zero
    ELSE LET c == CHOOSE x \in cs : TRUE
         IN  Add(fillna0(pivoted.data[k, c]), RowSum(k, cs \ {c}))

\* lines 69-77: pivoted[category].sum(axis=1), or zeros when the category is absent
CategoryTotal(category) ==
    IF \E c \in pivoted.columns : c[1] = category
    THEN [k \in Idx |-> RowSum(k, {c \in pivoted.columns : c[1] = category})]
    ELSE [k \in Idx |-> Zero]

\* faulty variant: the zero denominator is left in place
replace0_kept(x) == x

\* Series.replace({0: np.nan}) on one element
replace0(x) == IF x = Zero THEN NaN ELSE x

\* np.where(cond, a, b) on one element
np_where(cond, a, b) == IF cond THEN a ELSE b

(***************************************************************************)
(* Classification of ROE (lines 48-65).                                    *)
(***************************************************************************)
\* insert x into the ascending sequence s
RECURSIVE Insert(_, _)
Insert(x, s) ==
    IF s = <<>> THEN <<x>>
    ELSE IF Leq(x, Head(s)) THEN <<x>> \o s
    ELSE <<Head(s)>> \o Insert(x, Tail(s))

RECURSIVE SortAsc(_)
SortAsc(s) == IF s = <<>> THEN <<>> ELSE Insert(Head(s), SortAsc(Tail(s)))

\* Series.dropna(), in index order
dropna(series) ==
    LET NotNa(x) == ~IsNaN(x)
    IN  SelectSeq([i \in 1..Len(pivoted.index) |-> series[pivoted.index[i]]], NotNa)

\* Series.quantile(p/100), interpolation='linear', over non-NaN values
quantile(values, p) ==
    LET s == SortAsc(values)
        h == (Len(s) - 1) * p
        lo == (h \div 100) + 1
        hi == IF h % 100 = 0 THEN lo ELSE lo + 1
    IN  Add(s[lo], Mul(Sub(s[hi], s[lo]), Norm(h % 100, 100)))

Q33 == 33

Q66 == 66

MinSample == 2

\* faulty variant: the quantiles are taken from two values on
Thresholds_from2(series) ==
    LET temp_roe == dropna(series)
    IN  IF Len(temp_roe) > MinSample - 1
        THEN <<quantile(temp_roe, Q33), quantile(temp_roe, Q66)>>
        ELSE <<Zero, Zero>>

\* lines 49-53
Thresholds(series) ==
    LET temp_roe == dropna(series)
    IN  IF Len(temp_roe) > MinSample
        THEN <<quantile(temp_roe, Q33), quantile(temp_roe, Q66)>>
        ELSE <<Zero, Zero>>

\* faulty variant: a value equal to a threshold goes to the upper class
classify_roe_strict(x, t33, t66) ==
    IF IsNaN(x) THEN "Unknown"
    ELSE IF Leq(x, t33) /\ x # t33 THEN "Low performance"
    ELSE IF Leq(x, t66) /\ x # t66 THEN "Medium performance"
    ELSE "High performance"

\* faulty variant: the labels of the two lower classes are exchanged
classify_roe_swapped(x, t33, t66) ==
    IF IsNaN(x) THEN "Unknown"
    ELSE IF Leq(x, t33) THEN "Medium performance"
    ELSE IF Leq(x, t66) THEN "Low performance"
    ELSE "High performance"

\* lines 55-63
classify_roe(x, t33, t66) ==
    IF IsNaN(x) THEN "Unknown"
    ELSE IF Leq(x, t33) THEN "Low performance"
    ELSE IF Leq(x, t66) THEN "Medium performance"
    ELSE "High performance"

(***************************************************************************)
(* The sheets the model is run on.                                         *)
(***************************************************************************)
MaxRecords == 3

MaxPeriods == 4

MaxItems == 3

SeqsUpTo(U, n) == UNION {[1..m -> U] : m \in 0..n}

RECURSIVE Flatten(_)
Flatten(ss) == IF ss = <<>> THEN <<>> ELSE Head(ss) \o Flatten(Tail(ss))

\* Rows with missing cells, duplicated line items, unparsable values and a
\* (Categoria, Indicador) pair the code never reads, in any order.
PivotUniverse ==
    { Rec("X", 2023, 1, "Patrimonio", "Capital", Number(1)),
      Rec("X", 2023, 1, "Patrimonio", "Capital", Number(2)),
      Rec("X", 2023, 1, "Patrimonio", "Capital", Text),
      Rec("X", 2023, 1, "Patrimonio", "Utilidad De Periodo", NumericText(3)),
      Rec("X", 2023, 2, "Patrimonio", "Capital", Blank),
      Rec("Y", 2022, 12, "Patrimonio", "Pasivo Y Patrimonio", Number(4)),
      Rec("Y", 2022, 12, "Otros Activos", "Locales", Number(1)),
      Rec(NaNStr, 2023, 1, "Patrimonio", "Capital", Number(1)),
      Rec("X", NaNInt, 1, "Patrimonio", "Capital", Number(1)),
      Rec("X", 2023, NaNInt, "Patrimonio", "Capital", Number(1)),
      Rec("X", 2023, 2, NaNStr, "Capital", Number(1)),
      Rec("Y", 2023, 1, "Patrimonio", NaNStr, Number(1)),
      Rec(NaNStr, NaNInt, NaNInt, NaNStr, NaNStr, Blank) }

PivotSheets == SeqsUpTo(PivotUniverse, MaxRecords)

\* The i-th period of a panel: the banks in turn, month after month.
PeriodKey(i) ==
    <<BankNames[((i - 1) % Len(BankNames)) + 1], 2023, ((i - 1) \div Len(BankNames)) + 1>>

\* the rows of one period: one row per <<Categoria, Indicador, value>> item
Block(k, items) ==
    [j \in 1..Len(items) |->
        Rec(k[1], k[2], k[3], items[j][1], items[j][2], Number(items[j][3]))]

NI == "Utilidad De Periodo"

TA == "Pasivo Y Patrimonio"

\* Patrimonio line items of one period: ROE 1/20, 1/5, 0, 1/5 again,
\* no total assets, zero equity, and a period with no rows.
PatrimonioProfiles ==
    { <<>>,
      << <<"Patrimonio", NI, 1>>, <<"Patrimonio", TA, 10>>, <<"Patrimonio", "Capital", 19>> >>,
      << <<"Patrimonio", NI, 2>>, <<"Patrimonio", TA, 10>>, <<"Patrimonio", "Capital", 8>> >>,
      << <<"Patrimonio", TA, 10>>, <<"Patrimonio", "Capital", 5>> >>,
      << <<"Patrimonio", NI, 1>>, <<"Patrimonio", TA, 20>>, <<"Patrimonio", "Capital", 1>>,
         <<"Patrimonio", "Otras Reservas", 1>>,
         <<"Patrimonio", "Utilidad De Periodos Anteriores", 1>>,
         <<"Patrimonio", "Ganancia O Perdida En Valores Disponible Para La Venta", 1>> >>,
      << <<"Patrimonio", NI, 1>>, <<"Patrimonio", "Capital", 9>> >>,
      << <<"Patrimonio", NI, 1>>, <<"Patrimonio", TA, 10>>, <<"Patrimonio", "Capital", -1>> >> }

DuPontSheets ==
    {Flatten([i \in 1..MaxPeriods |-> Block(PeriodKey(i), f[i])]) :
        f \in [1..MaxPeriods -> PatrimonioProfiles]}

\* Line items of the secondary ratios, with values that cancel to a zero denominator.
RatioItems ==
    << <<"Activos Liquidos", "Efectivo", 1>>,
       <<"Activos Liquidos", "Depositos En Bancos", 2>>,
       <<"Depositos", "De Particulares", 3>>,
       <<"Depositos", "De Bancos", 2>>,
       <<"Depositos", "De Bancos", -2>>,
       <<"Depositos", "A La Vista", 1>>,
       <<"Depositos", "A Plazo", 4>>,
       <<"Depositos", "A Plazo", -4>>,
       <<"Cartera Crediticia", "Locales", 5>>,
       <<"Cartera Crediticia", "Extranjero", -5>>,
       <<"Cartera Crediticia", "Extranjero", 1>>,
       <<"Cartera Crediticia", "Menos Provisiones", 1>>,
       <<"Cartera Crediticia", "Menos Provisiones Locales", 5>>,
       <<"Cartera Crediticia", "Menos Provisiones Locales", 2>>,
       <<"Obligaciones", "Locales", 3>>,
       <<"Obligaciones", "Extranjero", 1>>,
       <<"Otros Pasivos", "Locales", 2>>,
       <<"Otros Pasivos", "Extranjero", 1>> >>

\* the non-decreasing sequences of at most n indices into RatioItems
RECURSIVE Picks(_)
Picks(n) ==
    IF n = 0 THEN {<<>>}
    ELSE LET P == Picks(n - 1)
             longest == {p \in P : Len(p) = n - 1}
         IN  P \cup UNION {{Append(p, i) :
                               i \in (IF p = <<>> THEN 1 ELSE p[Len(p)])..Len(RatioItems)} :
                           p \in longest}

\* Patrimonio rows under the ratio items: ROE 1/2, no total assets, zero equity, none.
RatioBases ==
    { << <<"Patrimonio", NI, 1>>, <<"Patrimonio", TA, 10>>, <<"Patrimonio", "Capital", 1>> >>,
      << <<"Patrimonio", NI, 1>>, <<"Patrimonio", "Capital", 1>> >>,
      << <<"Patrimonio", NI, 1>>, <<"Patrimonio", TA, 10>>, <<"Patrimonio", "Capital", -1>> >>,
      <<>> }

RatioSheets ==
    {Block(PeriodKey(1), b \o [j \in 1..Len(p) |-> RatioItems[p[j]]]) :
        b \in RatioBases, p \in Picks(MaxItems)}

(***************************************************************************)
(* The steps of preprocess_sbp_data.                                       *)
(***************************************************************************)
Empty == <<>>

Pending == <<equity, roa, leverage, roe, q33, q66, classification,
             liquidity_ratio, deposit_diversity, deposit_view_to_plazo,
             coverage_ratio, leverage_ratio_extra, capitalization_ratio,
             adjusted_ROE, result>>

InitWith(sheets) ==
    /\ columns \in {AllColumns} \cup {AllColumns \ {c} : c \in AllColumns}
    /\ raw \in sheets
    /\ "Subgrupo" \notin columns => \A i \in 1..Len(raw) : raw[i].Subgrupo = NaNStr
    /\ "Categoria" \notin columns => \A i \in 1..Len(raw) : raw[i].Categoria = NaNStr
    /\ "Indicador" \notin columns => \A i \in 1..Len(raw) : raw[i].Indicador = NaNStr
    /\ "Anio" \notin columns => \A i \in 1..Len(raw) : raw[i].Anio = NaNInt
    /\ "Mes" \notin columns => \A i \in 1..Len(raw) : raw[i].Mes = NaNInt
    /\ "Valor" \notin columns => \A i \in 1..Len(raw) : raw[i].Valor = Blank
    /\ pc = "start"
    /\ status = "running"
    /\ df = Empty
    /\ pivoted = [index |-> <<>>, columns |-> {}, data |-> Empty]
    /\ net_income = Empty /\ total_assets = Empty /\ equity = Empty
    /\ roa = Empty /\ leverage = Empty /\ roe = Empty
    /\ q33 = Zero /\ q66 = Zero /\ classification = Empty
    /\ liquidity_ratio = Empty /\ deposit_diversity = Empty
    /\ deposit_view_to_plazo = Empty /\ coverage_ratio = Empty
    /\ leverage_ratio_extra = Empty /\ capitalization_ratio = Empty
    /\ adjusted_ROE = Empty /\ result = Empty

\* lines 15-17: read the sheet, coerce 'Valor'; df['Valor'] raises KeyError without the column
ReadExcel ==
    /\ pc = "start"
    /\ IF "Valor" \in columns
       THEN /\ df' = Coerce(raw)
            /\ pc' = "loaded"
            /\ status' = status
       ELSE /\ df' = df
            /\ pc' = "failed"
            /\ status' = "KeyError"
    /\ UNCHANGED <<columns, raw, pivoted, net_income, total_assets, Pending>>

\* lines 20-25: pivot_table raises KeyError when a grouping column is absent
PivotTable ==
    /\ pc = "loaded"
    /\ IF (IndexColumns \cup PivotColumns) \subseteq columns
       THEN /\ pivoted' = pivot_table(df)
            /\ pc' = "pivoted"
            /\ status' = status
       ELSE /\ pivoted' = pivoted
            /\ pc' = "failed"
            /\ status' = "KeyError"
    /\ UNCHANGED <<columns, raw, df, net_income, total_assets, Pending>>

\* faulty variant: the current net income is left out of equity
Equity_without_current(capital, other_reserves, previous_net_income, market_value_gain, ni) ==
    Add(Add(Add(capital, other_reserves), previous_net_income), market_value_gain)

\* line 42
Equity(capital, other_reserves, previous_net_income, market_value_gain, ni) ==
    Add(Add(Add(Add(capital, other_reserves), previous_net_income), market_value_gain), ni)

\* lines 35-46
BasicMetrics ==
    /\ pc = "pivoted"
    /\ LET ni == get_col("Patrimonio", "Utilidad De Periodo")
           ta == get_col("Patrimonio", "Pasivo Y Patrimonio")
           capital == get_col("Patrimonio", "Capital")
           other_reserves == get_col("Patrimonio", "Otras Reservas")
           previous_net_income == get_col("Patrimonio", "Utilidad De Periodos Anteriores")
           market_value_gain ==
               get_col("Patrimonio", "Ganancia O Perdida En Valores Disponible Para La Venta")
           eq == [k \in Idx |->
                    Equity(capital[k], other_reserves[k], previous_net_income[k],
                           market_value_gain[k], ni[k])]
           ra == [k \in Idx |-> Div(ni[k], replace0(ta[k]))]
           lv == [k \in Idx |-> Div(ta[k], replace0(eq[k]))]
       IN  /\ net_income' = ni
           /\ total_assets' = ta
           /\ equity' = eq
           /\ roa' = ra
           /\ leverage' = lv
           /\ roe' = [k \in Idx |-> Mul(ra[k], lv[k])]
    /\ pc' = "metrics"
    /\ UNCHANGED <<columns, raw, status, df, pivoted, q33, q66, classification,
                   liquidity_ratio, deposit_diversity, deposit_view_to_plazo,
                   coverage_ratio, leverage_ratio_extra, capitalization_ratio,
                   adjusted_ROE, result>>

\* lines 48-65
Classification ==
    /\ pc = "metrics"
    /\ LET t == Thresholds(roe)
       IN  /\ q33' = t[1]
           /\ q66' = t[2]
           /\ classification' = [k \in Idx |-> classify_roe(roe[k], t[1], t[2])]
    /\ pc' = "classified"
    /\ UNCHANGED <<columns, raw, status, df, pivoted, net_income, total_assets,
                   equity, roa, leverage, roe,
                   liquidity_ratio, deposit_diversity, deposit_view_to_plazo,
                   coverage_ratio, leverage_ratio_extra, capitalization_ratio,
                   adjusted_ROE, result>>

\* faulty variant: a zero denominator gives 0
RatioOrZero(a, b) == [k \in Idx |-> np_where(b[k] # Zero, Div(a[k], b[k]), Zero)]

\* a / b where b != 0, NaN elsewhere: np.where(b != 0, a / b, np.nan)
RatioOrNaN(a, b) == [k \in Idx |-> np_where(b[k] # Zero, Div(a[k], b[k]), NaN)]

\* faulty variant: a null ROE is filled with 0 before the adjustment
AdjustedROE_filled(r, credit_locales, denom_adjusted) ==
    np_where(denom_adjusted # Zero,
             Mul(fillna0(r), Div(credit_locales, denom_adjusted)), NaN)

\* line 118 on one element
AdjustedROE(r, credit_locales, denom_adjusted) ==
    np_where(denom_adjusted # Zero, Mul(r, Div(credit_locales, denom_adjusted)), NaN)

\* lines 67-119
SecondaryRatios ==
    /\ pc = "classified"
    /\ LET total_activos_liquidos == CategoryTotal("Activos Liquidos")
           total_deposits == CategoryTotal("Depositos")
           deposit_particulares == get_col("Depositos", "De Particulares")
           deposit_bancos == get_col("Depositos", "De Bancos")
           deposit_a_la_vista == get_col("Depositos", "A La Vista")
           deposit_a_plazo == get_col("Depositos", "A Plazo")
           credit_locales == get_col("Cartera Crediticia", "Locales")
           credit_extr == get_col("Cartera Crediticia", "Extranjero")
           credit_menos == get_col("Cartera Crediticia", "Menos Provisiones")
           credit_total == [k \in Idx |-> Add(credit_locales[k], credit_extr[k])]
           obligations_locales == get_col("Obligaciones", "Locales")
           obligations_extr == get_col("Obligaciones", "Extranjero")
           otros_pasivos_locales == get_col("Otros Pasivos", "Locales")
           otros_pasivos_extr == get_col("Otros Pasivos", "Extranjero")
           total_obligations == [k \in Idx |->
               Add(Add(Add(obligations_locales[k], obligations_extr[k]),
                       otros_pasivos_locales[k]), otros_pasivos_extr[k])]
           credit_locales_minus == get_col("Cartera Crediticia", "Menos Provisiones Locales")
           denom_adjusted == [k \in Idx |-> Sub(credit_locales[k], credit_locales_minus[k])]
       IN  /\ liquidity_ratio' = RatioOrNaN(total_activos_liquidos, total_deposits)
           /\ deposit_diversity' = RatioOrNaN(deposit_particulares, deposit_bancos)
           /\ deposit_view_to_plazo' = RatioOrNaN(deposit_a_la_vista, deposit_a_plazo)
           /\ coverage_ratio' = RatioOrNaN(credit_menos, credit_total)
           /\ leverage_ratio_extra' = RatioOrNaN(total_obligations, equity)
           /\ capitalization_ratio' = RatioOrNaN(equity, total_assets)
           /\ adjusted_ROE' = [k \in Idx |->
                  AdjustedROE(roe[k], credit_locales[k], denom_adjusted[k])]
    /\ pc' = "ratios"
    /\ UNCHANGED <<columns, raw, status, df, pivoted, net_income, total_assets,
                   equity, roa, leverage, roe, q33, q66, classification, result>>

\* lines 121-144: one row per entry of the pivot index
Assemble ==
    /\ pc = "ratios"
    /\ result' = [i \in 1..Len(pivoted.index) |->
          LET k == pivoted.index[i]
          IN  [Bank |-> k[1], Year |-> k[2], Month |-> k[3],
               net_income |-> net_income[k],
               total_assets |-> total_assets[k],
               equity |-> equity[k],
               ROA |-> roa[k],
               Leverage |-> leverage[k],
               ROE |-> roe[k],
               classification |-> classification[k],
               liquidity_ratio |-> liquidity_ratio[k],
               deposit_diversity |-> deposit_diversity[k],
               deposit_view_to_plazo |-> deposit_view_to_plazo[k],
               coverage_ratio |-> coverage_ratio[k],
               leverage_ratio_extra |-> leverage_ratio_extra[k],
               capitalization_ratio |-> capitalization_ratio[k],
               adjusted_ROE |-> adjusted_ROE[k]]]
    /\ pc' = "done"
    /\ status' = "ok"
    /\ UNCHANGED <<columns, raw, df, pivoted, net_income, total_assets,
                   equity, roa, leverage, roe, q33, q66, classification,
                   liquidity_ratio, deposit_diversity, deposit_view_to_plazo,
                   coverage_ratio, leverage_ratio_extra, capitalization_ratio,
                   adjusted_ROE>>

Next ==
    \/ ReadExcel
    \/ PivotTable
    \/ BasicMetrics
    \/ Classification
    \/ SecondaryRatios
    \/ Assemble

Init == InitWith(PivotSheets)

Spec == Init /\ [][Next]_vars

InitDuPont == InitWith(DuPontSheets)

SpecDuPont == InitDuPont /\ [][Next]_vars

InitRatios == InitWith(RatioSheets)

SpecRatios == InitRatios /\ [][Next]_vars

(***************************************************************************)
(* What the input says, read off the sheet without the pivot.              *)
(***************************************************************************)
Rows == 1..Len(result)

RowKey(r) == <<r.Bank, r.Year, r.Month>>

Done == pc = "done"

\* the number a 'Valor' cell contributes: 0 unless it is numeric
Contribution(cell) == IF cell.kind \in {"number", "numeric_text"} THEN cell.num ELSE 0

RECURSIVE SumInts(_)
SumInts(s) == IF s = <<>> THEN 0 ELSE Head(s) + SumInts(Tail(s))

\* the contributions of the records of the sheet that satisfy Matches, summed
SheetSum(Matches(_)) ==
    LET rows == SelectSeq(raw, Matches)
    IN  SumInts([i \in 1..Len(rows) |-> Contribution(rows[i].Valor)])

\* the sum over the records of period k with the pair <<category, indicator>>
ItemSum(k, category, indicator) ==
    SheetSum(LAMBDA r : IndexKey(r) = k /\ ColumnKey(r) = <<category, indicator>>)

\* the sum over the records of period k in a category
CategorySum(k, category) ==
    SheetSum(LAMBDA r : IndexKey(r) = k /\ r.Categoria = category)

RecordsOf(k, category, indicator) ==
    {i \in 1..Len(raw) : IndexKey(raw[i]) = k /\ ColumnKey(raw[i]) = <<category, indicator>>}

HasPeriodKey(r) == r.Subgrupo # NaNStr /\ r.Anio # NaNInt /\ r.Mes # NaNInt

Finite(x) == x[2] > 0

\* q = a / b, p = a * b, x < y on finite rationals, by cross-multiplication
IsQuotient(q, a, b) == Finite(q) /\ q[1] * b[1] * a[2] = a[1] * b[2] * q[2]

IsProduct(p, a, b) == Finite(p) /\ p[1] * a[2] * b[2] = a[1] * b[1] * p[2]

Less(x, y) == x[1] * y[2] < y[1] * x[2]

\* q is null when the integer denominator d is 0, the quotient n / d otherwise
NullOrQuotient(q, n, d) == IF d = 0 THEN q = NaN ELSE Finite(q) /\ q[1] * d = n * q[2]

NonNullROE == {i \in Rows : result[i].ROE # NaN}

Labels == {"Low performance", "Medium performance", "High performance", "Unknown"}

ClassRank(c) ==
    CASE c = "Low performance" -> 1
      [] c = "Medium performance" -> 2
      [] c = "High performance" -> 3

\* the pairs get_col is asked for: those the code reads, those in the sheet, an absent one
CodePairs ==
    { <<"Patrimonio", "Utilidad De Periodo">>, <<"Patrimonio", "Pasivo Y Patrimonio">>,
      <<"Patrimonio", "Capital">>, <<"Patrimonio", "Otras Reservas">>,
      <<"Patrimonio", "Utilidad De Periodos Anteriores">>,
      <<"Patrimonio", "Ganancia O Perdida En Valores Disponible Para La Venta">>,
      <<"Depositos", "De Particulares">>, <<"Depositos", "De Bancos">>,
      <<"Depositos", "A La Vista">>, <<"Depositos", "A Plazo">>,
      <<"Cartera Crediticia", "Locales">>, <<"Cartera Crediticia", "Extranjero">>,
      <<"Cartera Crediticia", "Menos Provisiones">>,
      <<"Cartera Crediticia", "Menos Provisiones Locales">>,
      <<"Obligaciones", "Locales">>, <<"Obligaciones", "Extranjero">>,
      <<"Otros Pasivos", "Locales">>, <<"Otros Pasivos", "Extranjero">> }

AskedPairs ==
    CodePairs \cup {<<"Ausente", "Ausente">>}
    \cup {ColumnKey(raw[i]) : i \in {j \in 1..Len(raw) : HasAllKeys(raw[j])}}

EquityOf(k) ==
    ItemSum(k, "Patrimonio", "Capital") + ItemSum(k, "Patrimonio", "Otras Reservas")
    + ItemSum(k, "Patrimonio", "Utilidad De Periodos Anteriores")
    + ItemSum(k, "Patrimonio", "Ganancia O Perdida En Valores Disponible Para La Venta")
    + ItemSum(k, "Patrimonio", "Utilidad De Periodo")

AssetsOf(k) == ItemSum(k, "Patrimonio", "Pasivo Y Patrimonio")

CreditLocales(k) == ItemSum(k, "Cartera Crediticia", "Locales")

AdjustedDenominator(k) ==
    CreditLocales(k) - ItemSum(k, "Cartera Crediticia", "Menos Provisiones Locales")

(***************************************************************************)
(* The claims.                                                             *)
(***************************************************************************)

\* C1: in every output row the classification is "Unknown" iff ROE is null;
\* otherwise it is Low when ROE <= q33, Medium when q33 < ROE <= q66 and High
\* when ROE > q66, with q33 and q66 the thresholds of the run; no other label occurs.
C1_ClassificationByThresholds ==
    Done => \A i \in Rows :
        LET r == result[i]
            x == r.ROE
            c == r.classification
        IN  /\ c \in Labels
            /\ c = "Unknown" <=> x = NaN
            /\ x # NaN =>
                 /\ c = "Low performance" <=> ~Less(q33, x)
                 /\ c = "Medium performance" <=> Less(q33, x) /\ ~Less(q66, x)
                 /\ c = "High performance" <=> Less(q66, x)

\* C1 witness: quantile thresholds are in force, a row sits exactly on q33 and is
\* Low, another row is High and a row with null ROE is Unknown.
C1_Witness ==
    /\ Done
    /\ Cardinality(NonNullROE) > 2
    /\ \E i \in Rows : result[i].ROE = q33 /\ result[i].classification = "Low performance"
    /\ \E i \in Rows : result[i].classification = "High performance"
    /\ \E i \in Rows : result[i].ROE = NaN /\ result[i].classification = "Unknown"

\* C2 as stated: with fewer than 3 non-null ROE values both thresholds are 0 and
\* every row with a non-null ROE > 0 is classified "Medium performance".
C2_AsStated ==
    (Done /\ Cardinality(NonNullROE) < 3) =>
        /\ q33 = Zero
        /\ q66 = Zero
        /\ \A i \in NonNullROE :
              Less(Zero, result[i].ROE) => result[i].classification = "Medium performance"

\* C2 amended: with fewer than 3 non-null ROE values both thresholds are 0 and
\* every row with a non-null ROE > 0 is classified "High performance".
C2_DefaultThresholds ==
    (Done /\ Cardinality(NonNullROE) < 3) =>
        /\ q33 = Zero
        /\ q66 = Zero
        /\ \A i \in NonNullROE :
              Less(Zero, result[i].ROE) => result[i].classification = "High performance"

\* C2 witness: exactly two non-null ROE values, one of them 0.05, classified High.
C2_Witness ==
    /\ Done
    /\ Cardinality(NonNullROE) = 2
    /\ \E i \in Rows :
          result[i].ROE = <<1, 20>> /\ result[i].classification = "High performance"

\* C3: in every output row ROA is null exactly when total_assets is 0 and is
\* net_income / total_assets otherwise; Leverage is null exactly when equity is 0
\* and is total_assets / equity otherwise; ROE is null iff ROA or Leverage is
\* null and is ROA x Leverage otherwise.  The call does not fail on a zero
\* denominator.
C3_PrimaryRatios ==
    /\ Done => \A i \in Rows :
        LET r == result[i]
        IN  /\ r.ROA = NaN <=> r.total_assets = Zero
            /\ r.total_assets # Zero => IsQuotient(r.ROA, r.net_income, r.total_assets)
            /\ r.Leverage = NaN <=> r.equity = Zero
            /\ r.equity # Zero => IsQuotient(r.Leverage, r.total_assets, r.equity)
            /\ r.ROE = NaN <=> (r.ROA = NaN \/ r.Leverage = NaN)
            /\ r.ROE # NaN => IsProduct(r.ROE, r.ROA, r.Leverage)
    /\ columns = AllColumns => status # "KeyError"

\* C3 witness: one output holds a row without total assets (null ROA), a row
\* with zero equity (null Leverage) and a row with all three ratios defined.
C3_Witness ==
    /\ Done
    /\ \E i \in Rows : result[i].total_assets = Zero /\ result[i].ROA = NaN
                       /\ result[i].net_income # Zero
    /\ \E i \in Rows : result[i].equity = Zero /\ result[i].Leverage = NaN
                       /\ result[i].ROA # NaN /\ result[i].ROE = NaN
    /\ \E i \in Rows : result[i].ROE # NaN /\ result[i].ROE # Zero

\* C4: for every period of the pivot and every (category, indicator) pair,
\* get_col gives the sum of the numeric values of the records with that period
\* and pair, 0 when there is none; with all columns present the call never fails.
C4_SafeGetIsSum ==
    /\ pc \in {"pivoted", "metrics", "classified", "ratios", "done"} =>
          \A k \in Idx : \A c \in AskedPairs :
              get_col(c[1], c[2])[k] = <<ItemSum(k, c[1], c[2]), 1>>
    /\ columns = AllColumns => status # "KeyError"

\* C4 witness: a period with two numeric records and one unparsable record of
\* the same pair, summed to 3, and a pair absent from the whole sheet.
C4_Witness ==
    /\ Done
    /\ \E k \in Idx :
          /\ Cardinality(RecordsOf(k, "Patrimonio", "Capital")) = 3
          /\ \E i \in RecordsOf(k, "Patrimonio", "Capital") : raw[i].Valor.kind = "text"
          /\ get_col("Patrimonio", "Capital")[k] = <<3, 1>>
          /\ <<"Patrimonio", "Otras Reservas">> \notin pivoted.columns
          /\ get_col("Patrimonio", "Otras Reservas")[k] = Zero

\* C5: in every output row each of the six secondary ratios is null exactly
\* when its own denominator is 0 and the quotient otherwise.
C5_SecondaryRatios ==
    /\ Done => \A i \in Rows :
        LET r == result[i]
            k == RowKey(r)
        IN  /\ NullOrQuotient(r.liquidity_ratio,
                              CategorySum(k, "Activos Liquidos"), CategorySum(k, "Depositos"))
            /\ NullOrQuotient(r.deposit_diversity,
                              ItemSum(k, "Depositos", "De Particulares"),
                              ItemSum(k, "Depositos", "De Bancos"))
            /\ NullOrQuotient(r.deposit_view_to_plazo,
                              ItemSum(k, "Depositos", "A La Vista"),
                              ItemSum(k, "Depositos", "A Plazo"))
            /\ NullOrQuotient(r.coverage_ratio,
                              ItemSum(k, "Cartera Crediticia", "Menos Provisiones"),
                              ItemSum(k, "Cartera Crediticia", "Locales")
                              + ItemSum(k, "Cartera Crediticia", "Extranjero"))
            /\ NullOrQuotient(r.leverage_ratio_extra,
                              ItemSum(k, "Obligaciones", "Locales")
                              + ItemSum(k, "Obligaciones", "Extranjero")
                              + ItemSum(k, "Otros Pasivos", "Locales")
                              + ItemSum(k, "Otros Pasivos", "Extranjero"),
                              EquityOf(k))
            /\ NullOrQuotient(r.capitalization_ratio, EquityOf(k), AssetsOf(k))
    /\ columns = AllColumns => status # "KeyError"

\* C5 witness: a period with liquid assets and no "Depositos" record has a null
\* liquidity_ratio while its coverage_ratio is defined.
C5_Witness ==
    /\ Done
    /\ \E i \in Rows :
          /\ \A j \in 1..Len(raw) : raw[j].Categoria # "Depositos"
          /\ CategorySum(RowKey(result[i]), "Activos Liquidos") # 0
          /\ result[i].liquidity_ratio = NaN
          /\ result[i].coverage_ratio \notin {NaN, Zero}

\* C6 as stated: the output has exactly one row for every period key that occurs
\* in an input record, and no two rows share a period key.
C6_OneRowPerPeriodKey ==
    Done =>
        /\ \A n \in 1..Len(raw) :
              HasPeriodKey(raw[n]) =>
                  Cardinality({i \in Rows : RowKey(result[i]) = IndexKey(raw[n])}) = 1
        /\ \A i, j \in Rows : RowKey(result[i]) = RowKey(result[j]) => i = j

\* C7: for any two output rows with non-null ROE, a smaller ROE never has a
\* higher class in the order Low < Medium < High; the thresholds satisfy q33 <= q66.
C7_Monotone ==
    Done =>
        /\ ~Less(q66, q33)
        /\ \A i, j \in NonNullROE :
              Less(result[i].ROE, result[j].ROE) =>
                  ClassRank(result[i].classification) <= ClassRank(result[j].classification)

\* C7 witness: quantile thresholds with q33 < q66 and rows of all three classes.
C7_Witness ==
    /\ Done
    /\ Cardinality(NonNullROE) > 2
    /\ Less(q33, q66)
    /\ \A c \in {"Low performance", "Medium performance", "High performance"} :
          \E i \in Rows : result[i].classification = c

\* C8: in every output row equity is the sum of the five line items capital,
\* other reserves, previous-period net income, market value adjustment and
\* current net income of its period, each 0 when absent.
C8_EquityIsSumOfFive ==
    Done => \A i \in Rows : result[i].equity = <<EquityOf(RowKey(result[i])), 1>>

\* C8 witness: a row whose five line items are all present and non-zero.
C8_Witness ==
    /\ Done
    /\ \E i \in Rows :
          LET k == RowKey(result[i])
          IN  /\ ItemSum(k, "Patrimonio", "Capital") # 0
              /\ ItemSum(k, "Patrimonio", "Otras Reservas") # 0
              /\ ItemSum(k, "Patrimonio", "Utilidad De Periodos Anteriores") # 0
              /\ ItemSum(k, "Patrimonio",
                         "Ganancia O Perdida En Valores Disponible Para La Venta") # 0
              /\ ItemSum(k, "Patrimonio", "Utilidad De Periodo") # 0
              /\ result[i].equity = <<5, 1>>

\* C9 as stated: when an input record lacks a period key component the call
\* does not complete with an output table.
C9_MissingKeyFails ==
    (\E n \in 1..Len(raw) : ~HasPeriodKey(raw[n])) => ~Done

\* C10: in every output row adjusted_ROE is null iff d = 0 or ROE is null, with
\* d = (Cartera Crediticia, Locales) - (Cartera Crediticia, Menos Provisiones
\* Locales), and is ROE x Locales / d otherwise; in a row with null ROE the
\* ratios that do not read equity or total assets are null only on their own
\* zero denominator.
C10_AdjustedROE ==
    Done => \A i \in Rows :
        LET r == result[i]
            k == RowKey(r)
            d == AdjustedDenominator(k)
        IN  /\ r.adjusted_ROE = NaN <=> (d = 0 \/ r.ROE = NaN)
            /\ r.adjusted_ROE # NaN =>
                  /\ Finite(r.adjusted_ROE)
                  /\ r.adjusted_ROE[1] * r.ROE[2] * d
                       = r.ROE[1] * CreditLocales(k) * r.adjusted_ROE[2]
            /\ r.ROE = NaN =>
                  /\ r.liquidity_ratio = NaN <=> CategorySum(k, "Depositos") = 0
                  /\ r.deposit_diversity = NaN <=> ItemSum(k, "Depositos", "De Bancos") = 0
                  /\ r.deposit_view_to_plazo = NaN <=> ItemSum(k, "Depositos", "A Plazo") = 0
                  /\ r.coverage_ratio = NaN <=>
                        ItemSum(k, "Cartera Crediticia", "Locales")
                        + ItemSum(k, "Cartera Crediticia", "Extranjero") = 0

\* C10 witness: a row with null ROE and d # 0 whose adjusted_ROE is null while
\* its coverage_ratio is defined.
C10_Witness ==
    /\ Done
    /\ \E i \in Rows :
          /\ result[i].ROE = NaN
          /\ AdjustedDenominator(RowKey(result[i])) # 0
          /\ result[i].adjusted_ROE = NaN
          /\ result[i].coverage_ratio # NaN

====
